---- MODULE Spec2Model ----
(***************************************************************************)
(* The resumable batch categoriser of cluster-new.py: main, load_progress, *)
(* process_ngrams, categorize_keywords, parse_categories and               *)
(* save_progress, with the files they read and write and the               *)
(* classification service they call; and the pipeline of cluster-new-db.py *)
(* (main, process_ngrams, categorize_keywords, write_csv).                 *)
(*                                                                         *)
(* A CSV table is the sequence of its parsed rows; a row and an in-memory  *)
(* keyword record are functions from column names to strings.  Indices of  *)
(* the code are 0-based: record i of the code is keywords[i + 1] here.     *)
(***************************************************************************)
EXTENDS Integers, Sequences, FiniteSets, TLC

\* ------------------------------------------------------------------ bounds
MaxRecords == 3      \* rows of the input table (Spec, SpecDet)
MaxBatch == 2        \* largest batch_size tried
MaxInterval == 2     \* largest save_interval tried
SchedRecords == 5    \* rows of the input table under SpecSched
SchedInterval == 3   \* largest save_interval tried under SpecSched
MaxRestarts == 1     \* times the program is started again
MaxFragments == 2    \* fragments, and label pairs, of a text that is not JSON
MaxNgrams == 2       \* rows of the n-gram table under SpecNgram

Min(a, b) == IF a < b THEN a ELSE b

\* ------------------------------------------------------------ file names
input_file == "kay-20240918-semrush.csv"
output_file == "categorized_kay_jewelers_keywords.csv"
progress_file == "categorized_kay_jewelers_keywords_in_progress.csv"
temp_output == "temp_categorized_kay_jewelers_keywords.csv"
temp_progress == "temp_categorized_kay_jewelers_keywords_in_progress.csv"
ngram_file == "ngrams.csv"
FileNames ==
    {input_file, output_file, progress_file, temp_output, temp_progress,
     ngram_file}

\* temp_file = f"temp_{output_file}"; temp_file_same writes in place.
temp_file_same(dest) == dest
temp_file(dest) == IF dest = progress_file THEN temp_progress ELSE temp_output

NoFile == [exists |-> FALSE, rows |-> <<>>]
File(rows) == [exists |-> TRUE, rows |-> rows]

\* ---------------------------------------------------------------- records
MainCol == "Main Category"
SubCol == "Subcategory"
Uncategorized == "Uncategorized"
RequiredCols == {"Keyword", "Keyword Intents", "Position"}
InputCols == RequiredCols \cup {"Search Volume"}

KeywordText == <<"diamond ring", "gold necklace", "hoop earrings",
                 "tennis bracelet", "mens watch", "ruby pendant">>
PositionText == <<"1", "2", "3", "4", "5", "6">>

\* Row j of the input table as csv.DictReader yields it, for a table whose
\* header is cols.
InputRow(j, cols) ==
    [c \in cols |-> IF c = "Keyword" THEN KeywordText[j]
                    ELSE IF c = "Position" THEN PositionText[j]
                    ELSE IF c = "Keyword Intents" THEN "informational"
                    ELSE "100"]

InputRows(n, cols) == [j \in 1..n |-> InputRow(j, cols)]

\* item.get(col): the value, or None (here "") when the key is absent.
Get(item, col) == IF col \in DOMAIN item THEN item[col] ELSE ""

\* keyword['Main Category'] = main; keyword['Subcategory'] = sub.
\* SetCategory_fresh builds a new record of the keyword and its categories.
SetCategory_fresh(keyword, main, sub) ==
    [c \in {"Keyword", MainCol, SubCol} |->
        IF c = MainCol THEN main ELSE IF c = SubCol THEN sub ELSE keyword[c]]
SetCategory(keyword, main, sub) ==
    [c \in DOMAIN keyword \cup {MainCol, SubCol} |->
        IF c = MainCol THEN main ELSE IF c = SubCol THEN sub ELSE keyword[c]]

\* ------------------------------------------------------------------- texts
\* A Python str of the tables, as the sequence of its characters.
Chars ==
    ("diamond ring" :> <<"d", "i", "a", "m", "o", "n", "d", " ", "r", "i", "n", "g">>)
    @@ ("gold necklace" :> <<"g", "o", "l", "d", " ", "n", "e", "c", "k", "l", "a", "c", "e">>)
    @@ ("hoop earrings" :> <<"h", "o", "o", "p", " ", "e", "a", "r", "r", "i", "n", "g", "s">>)
    @@ ("tennis bracelet" :> <<"t", "e", "n", "n", "i", "s", " ", "b", "r", "a", "c", "e", "l", "e", "t">>)
    @@ ("mens watch" :> <<"m", "e", "n", "s", " ", "w", "a", "t", "c", "h">>)
    @@ ("ruby pendant" :> <<"r", "u", "b", "y", " ", "p", "e", "n", "d", "a", "n", "t">>)
    @@ ("ring" :> <<"r", "i", "n", "g">>)
    @@ ("earring" :> <<"e", "a", "r", "r", "i", "n", "g">>)
    @@ ("diamond" :> <<"d", "i", "a", "m", "o", "n", "d">>)
    @@ ("gold" :> <<"g", "o", "l", "d">>)
    @@ ("watch bracelet" :> <<"w", "a", "t", "c", "h", " ", "b", "r", "a", "c", "e", "l", "e", "t">>)
    @@ ("prom dress" :> <<"p", "r", "o", "m", " ", "d", "r", "e", "s", "s">>)
    @@ ("wedding gown" :> <<"w", "e", "d", "d", "i", "n", "g", " ", "g", "o", "w", "n">>)
    @@ ("engagement" :> <<"e", "n", "g", "a", "g", "e", "m", "e", "n", "t">>)
    @@ ("necklace" :> <<"n", "e", "c", "k", "l", "a", "c", "e">>)
    @@ ("pendant" :> <<"p", "e", "n", "d", "a", "n", "t">>)
    @@ ("bracelet" :> <<"b", "r", "a", "c", "e", "l", "e", "t">>)
    @@ ("watch" :> <<"w", "a", "t", "c", "h">>)
    @@ ("gemstone" :> <<"g", "e", "m", "s", "t", "o", "n", "e">>)
    @@ ("wedding" :> <<"w", "e", "d", "d", "i", "n", "g">>)
    @@ ("bridal" :> <<"b", "r", "i", "d", "a", "l">>)
    @@ ("dress" :> <<"d", "r", "e", "s", "s">>)
    @@ ("gown" :> <<"g", "o", "w", "n">>)
    @@ ("prom" :> <<"p", "r", "o", "m">>)
    @@ ("bridesmaid" :> <<"b", "r", "i", "d", "e", "s", "m", "a", "i", "d">>)
    @@ ("mother of" :> <<"m", "o", "t", "h", "e", "r", " ", "o", "f">>)
    @@ ("accessories" :> <<"a", "c", "c", "e", "s", "s", "o", "r", "i", "e", "s">>)
    @@ ("shoes" :> <<"s", "h", "o", "e", "s">>)
    @@ ("veil" :> <<"v", "e", "i", "l">>)

\* c.lower() of one character
LowerChar ==
    ("A" :> "a") @@ ("B" :> "b") @@ ("C" :> "c") @@ ("D" :> "d") @@
    ("E" :> "e") @@ ("F" :> "f") @@ ("G" :> "g") @@ ("H" :> "h") @@
    ("I" :> "i") @@ ("J" :> "j") @@ ("K" :> "k") @@ ("L" :> "l") @@
    ("M" :> "m") @@ ("N" :> "n") @@ ("O" :> "o") @@ ("P" :> "p") @@
    ("Q" :> "q") @@ ("R" :> "r") @@ ("S" :> "s") @@ ("T" :> "t") @@
    ("U" :> "u") @@ ("V" :> "v") @@ ("W" :> "w") @@ ("X" :> "x") @@
    ("Y" :> "y") @@ ("Z" :> "z")

\* s.lower()
Lower(s) ==
    [k \in 1..Len(s) |-> IF s[k] \in DOMAIN LowerChar THEN LowerChar[s[k]] ELSE s[k]]

\* sub in s, for two str
Contains(sub, s) ==
    \E k \in 0..(Len(s) - Len(sub)) : SubSeq(s, k + 1, k + Len(sub)) = sub

\* s.split(): the maximal runs of characters that are not whitespace
RECURSIVE SplitFrom(_, _, _)
SplitFrom(s, k, word) ==
    IF k > Len(s) THEN (IF word = <<>> THEN <<>> ELSE <<word>>)
    ELSE IF s[k] = " "
         THEN (IF word = <<>> THEN <<>> ELSE <<word>>) \o SplitFrom(s, k + 1, <<>>)
         ELSE SplitFrom(s, k + 1, Append(word, s[k]))
Split(s) == SplitFrom(s, 1, <<>>)

\* ------------------------------------------------------------- CSV tables
\* fieldnames = list(keywords[0].keys())
Fieldnames(keywords) == DOMAIN keywords[1]

\* csv.DictWriter with extrasaction='raise': a row holding a key that is not
\* a fieldname raises ValueError.
ExtrasRaise(row, fieldnames) == ~(DOMAIN row \subseteq fieldnames)

\* One row as DictWriter writes it and DictReader reads it back: exactly the
\* header's columns, a missing value written as the empty string.
CsvRow(row, fieldnames) == [c \in fieldnames |-> Get(row, c)]

CsvRows(keywords) ==
    [j \in 1..Len(keywords) |-> CsvRow(keywords[j], Fieldnames(keywords))]

\* ------------------------------------------------------ service responses
\* A response element is a JSON value: a mapping (with its keys) or not.
Mapping(d) == [mapping |-> TRUE, d |-> d]
NonMapping == [mapping |-> FALSE, d |-> <<>>]
Assignment(main, sub) ==
    Mapping([k \in {"main_category", "subcategory"} |->
                IF k = "main_category" THEN main ELSE sub])
SentinelAssignment == Assignment(Uncategorized, Uncategorized)

\* category[key] raises (KeyError, TypeError) unless category is a mapping
\* that holds key.
HasKey(category, key) == category.mapping /\ key \in DOMAIN category.d
WellFormed(category) ==
    HasKey(category, "main_category") /\ HasKey(category, "subcategory")

\* The outcome of openai.ChatCompletion.create for one batch: the call
\* raises, or it returns a text.  A text is described by what json.loads and
\* re.findall(r'\{[^}]+\}', ...) make of it: shape is the kind of JSON value
\* the whole text is ("list", "dict", "other") or "invalid" when the whole
\* text is not JSON; elems are the list's elements (or the one mapping);
\* objs are the brace-delimited fragments of a text that is not JSON, each
\* valid JSON (then a mapping) or not; pairs are the label pairs written in
\* the text as 'main_category': '...', 'subcategory': '...', which are not
\* JSON (single quotes).
CallFailure ==
    [kind |-> "fail", shape |-> "invalid", elems |-> <<>>, objs |-> <<>>,
     pairs |-> <<>>]
JsonList(elems) ==
    [kind |-> "text", shape |-> "list", elems |-> elems, objs |-> <<>>,
     pairs |-> <<>>]
JsonDict(elem) ==
    [kind |-> "text", shape |-> "dict", elems |-> <<elem>>, objs |-> <<>>,
     pairs |-> <<>>]
JsonOther ==
    [kind |-> "text", shape |-> "other", elems |-> <<>>, objs |-> <<>>,
     pairs |-> <<>>]
FreeText(objs, pairs) ==
    [kind |-> "text", shape |-> "invalid", elems |-> <<>>, objs |-> objs,
     pairs |-> pairs]
NotJson(objs) == FreeText(objs, <<>>)
ValidObj(elem) == [valid |-> TRUE, elem |-> elem]
InvalidObj == [valid |-> FALSE, elem |-> NonMapping]

Raised(error) == [raised |-> TRUE, error |-> error, value |-> <<>>]
Returned(value) == [raised |-> FALSE, error |-> "", value |-> value]

\* parse_categories of cluster-new.py.  The ValueError of line 39 is no
\* JSONDecodeError, so it leaves the function; json.loads of a fragment runs
\* inside the except clause, so its JSONDecodeError leaves the function too.
\* parse_categories_swallow treats the ValueError like a text that is not
\* JSON (except (json.JSONDecodeError, ValueError)).
parse_categories_swallow(response_content) ==
    CASE response_content.shape = "list" -> Returned(response_content.elems)
      [] response_content.shape = "dict" -> Returned(response_content.elems)
      [] OTHER ->
           LET json_objects == response_content.objs IN
           IF json_objects # <<>>
           THEN IF \E k \in 1..Len(json_objects) : ~json_objects[k].valid
                THEN Raised("JSONDecodeError")
                ELSE Returned([k \in 1..Len(json_objects) |-> json_objects[k].elem])
           ELSE Returned(<<>>)
parse_categories(response_content) ==
    CASE response_content.shape = "list" -> Returned(response_content.elems)
      [] response_content.shape = "dict" -> Returned(response_content.elems)
      [] response_content.shape = "other" -> Raised("ValueError")
      [] OTHER ->
           LET json_objects == response_content.objs IN
           IF json_objects # <<>>
           THEN IF \E k \in 1..Len(json_objects) : ~json_objects[k].valid
                THEN Raised("JSONDecodeError")
                ELSE Returned([k \in 1..Len(json_objects) |-> json_objects[k].elem])
           ELSE Returned(<<>>)

\* --------------------------------------------------------- one batch step
\* batch = keywords[i:i+batch_size], as the set of its positions.
BatchLen(n, i, batch_size) == IF i >= n THEN 0 ELSE Min(batch_size, n - i)
BatchIdx(keywords, i, batch_size) ==
    (i + 1)..(i + BatchLen(Len(keywords), i, batch_size))

\* ------------------------------------------------------------ n-gram hints
\* One row of the n-gram table as csv.DictReader yields it.
NgramRow(ngram, count) ==
    [c \in {"ngram", "count"} |-> IF c = "ngram" THEN ngram ELSE count]

\* int(row['count']): the number a decimal literal stands for; any other text
\* raises ValueError.
IntOf == ("2" :> 2) @@ ("5" :> 5)
IntRaises(text) == text \notin DOMAIN IntOf

\* 'sub' in ngram
In(sub, ngram) == Contains(Chars[sub], Chars[ngram])

\* The if/elif chain of lines 61-75 of cluster-new.py: the buckets the n-gram
\* is appended to.  Buckets_every tests every rule on its own (if ... if ...).
Buckets_every(ngram) ==
    LET hit == (IF In("ring", ngram) \/ In("engagement", ngram) THEN {"Rings"} ELSE {})
           \cup (IF In("necklace", ngram) \/ In("pendant", ngram) THEN {"Necklaces"} ELSE {})
           \cup (IF In("earring", ngram) THEN {"Earrings"} ELSE {})
           \cup (IF In("bracelet", ngram) THEN {"Bracelets"} ELSE {})
           \cup (IF In("watch", ngram) THEN {"Watches"} ELSE {})
           \cup (IF In("diamond", ngram) \/ In("gemstone", ngram) THEN {"Gemstones"} ELSE {})
    IN  IF hit = {} THEN {"Other"} ELSE hit
\* Buckets_earring_first is the chain with the test of 'earring' moved before
\* the test of 'ring'.
Buckets_earring_first(ngram) ==
    IF In("earring", ngram) THEN {"Earrings"}
    ELSE IF In("ring", ngram) \/ In("engagement", ngram) THEN {"Rings"}
    ELSE IF In("necklace", ngram) \/ In("pendant", ngram) THEN {"Necklaces"}
    ELSE IF In("bracelet", ngram) THEN {"Bracelets"}
    ELSE IF In("watch", ngram) THEN {"Watches"}
    ELSE IF In("diamond", ngram) \/ In("gemstone", ngram) THEN {"Gemstones"}
    ELSE {"Other"}
Buckets(ngram) ==
    IF In("ring", ngram) \/ In("engagement", ngram) THEN {"Rings"}
    ELSE IF In("necklace", ngram) \/ In("pendant", ngram) THEN {"Necklaces"}
    ELSE IF In("earring", ngram) THEN {"Earrings"}
    ELSE IF In("bracelet", ngram) THEN {"Bracelets"}
    ELSE IF In("watch", ngram) THEN {"Watches"}
    ELSE IF In("diamond", ngram) \/ In("gemstone", ngram) THEN {"Gemstones"}
    ELSE {"Other"}

\* The if/elif chain of lines 62-75 of cluster-new-db.py.
BucketsDb(ngram) ==
    IF In("wedding", ngram) \/ In("bridal", ngram) THEN {"Wedding Attire"}
    ELSE IF In("dress", ngram) \/ In("gown", ngram) THEN {"Dresses"}
    ELSE IF In("prom", ngram) THEN {"Prom"}
    ELSE IF In("bridesmaid", ngram) THEN {"Bridesmaid"}
    ELSE IF In("mother of", ngram) THEN {"Mother of the Bride/Groom"}
    ELSE IF In("accessories", ngram) \/ In("shoes", ngram) \/ In("veil", ngram)
         THEN {"Accessories"}
    ELSE {"Other"}

\* An empty dict, and d[key] = value.
EmptyDict == [k \in {} |-> 0]
DictSet(d, key, value) ==
    [k \in DOMAIN d \cup {key} |-> IF k = key THEN value ELSE d[k]]

\* ngram_categories[label].append(ngram) on a defaultdict(list), for every
\* label of labels.
AppendTo(cats, labels, ngram) ==
    [b \in DOMAIN cats \cup labels |->
        IF b \in labels
        THEN Append(IF b \in DOMAIN cats THEN cats[b] ELSE <<>>, ngram)
        ELSE cats[b]]

\* The loop of process_ngrams over the rows of the table, with the if/elif
\* chain of cluster-new.py or (db) of cluster-new-db.py: the tables after the
\* first k rows.  A count that is
\* no integer raises at its row, and the exception is raised again to the
\* caller (lines 75-77).
NgramLoop(rows, db) ==
    LET after[k \in 0..Len(rows)] ==
            IF k = 0
            THEN [raised |-> FALSE, ngram_counts |-> EmptyDict,
                  ngram_categories |-> EmptyDict]
            ELSE LET before == after[k - 1]
                     ngram == rows[k]["ngram"]
                     count == rows[k]["count"]
                 IN  IF before.raised \/ IntRaises(count)
                     THEN [before EXCEPT !.raised = TRUE]
                     ELSE [raised |-> FALSE,
                           ngram_counts |->
                               DictSet(before.ngram_counts, ngram, IntOf[count]),
                           ngram_categories |->
                               AppendTo(before.ngram_categories,
                                        IF db THEN BucketsDb(ngram)
                                        ELSE Buckets(ngram),
                                        ngram)]
    IN  after[Len(rows)]

\* process_ngrams of cluster-new.py and of cluster-new-db.py; a file that
\* does not exist raises.
NgramFailure ==
    [raised |-> TRUE, ngram_counts |-> EmptyDict, ngram_categories |-> EmptyDict]
process_ngrams(file) ==
    IF ~file.exists THEN NgramFailure ELSE NgramLoop(file.rows, FALSE)
process_ngrams_db(file) ==
    IF ~file.exists THEN NgramFailure ELSE NgramLoop(file.rows, TRUE)

RECURSIVE SumSeq(_)
SumSeq(xs) == IF xs = <<>> THEN 0 ELSE Head(xs) + SumSeq(Tail(xs))

\* The key of ngram_counts that is the str token, if any.
KeysOf(token, ngram_counts) == {g \in DOMAIN ngram_counts : Chars[g] = token}

\* Line 124: sum([ngram_counts.get(ngram, 0)
\*                for ngram in kw['Keyword'].lower().split()
\*                if ngram in ngram_counts])
NgramCount(kw, ngram_counts) ==
    LET tokens == Split(Lower(Chars[kw["Keyword"]]))
        found == SelectSeq(tokens, LAMBDA t : KeysOf(t, ngram_counts) # {})
    IN  SumSeq([k \in 1..Len(found) |->
                   ngram_counts[CHOOSE g \in KeysOf(found[k], ngram_counts) : TRUE]])

\* The per-record part of the request payload of line 124: the keyword and
\* its n-gram count, for each record of the batch.
Payload(keywords, i, batch_size, ngram_counts) ==
    [k \in 1..BatchLen(Len(keywords), i, batch_size) |->
        [keyword |-> keywords[i + k]["Keyword"],
         ngram_count |-> NgramCount(keywords[i + k], ngram_counts)]]

\* main_categories of main, lines 179-189.
Taxonomy ==
    ("Rings" :> <<"Engagement Rings", "Wedding Bands", "Promise Rings", "Fashion Rings">>)
    @@ ("Necklaces" :> <<"Pendants", "Chains", "Lockets", "Chokers">>)
    @@ ("Earrings" :> <<"Studs", "Hoops", "Drops", "Climbers">>)
    @@ ("Bracelets" :> <<"Tennis Bracelets", "Charm Bracelets", "Bangles", "Cuffs">>)
    @@ ("Watches" :> <<"Men's Watches", "Women's Watches", "Smart Watches", "Luxury Watches">>)
    @@ ("Gemstones" :> <<"Diamonds", "Birthstones", "Precious Gems", "Semi-Precious Gems">>)
    @@ ("Collections" :> <<"Personalized Jewelry", "Signature Collections", "Gifts", "Sale Items">>)
    @@ ("Services" :> <<"Jewelry Repair", "Ring Sizing", "Engraving", "Cleaning">>)
    @@ ("Other" :> <<"Accessories", "Gift Cards", "Miscellaneous">>)

\* The except clause of lines 147-152; MarkUncategorized_all loops over the
\* whole working set instead of the batch.
MarkUncategorized_all(keywords, i, batch_size) ==
    [j \in 1..Len(keywords) |->
        SetCategory(keywords[j], Uncategorized, Uncategorized)]
MarkUncategorized(keywords, i, batch_size) ==
    [j \in 1..Len(keywords) |->
        IF j \in BatchIdx(keywords, i, batch_size)
        THEN SetCategory(keywords[j], Uncategorized, Uncategorized)
        ELSE keywords[j]]

\* categories.extend([sentinel] * (len(batch) - len(categories))), then
\* categories[:len(batch)]; PadTruncate_front pads before the parsed
\* assignments and keeps the last n.
PadTruncate_front(categories, n) ==
    [k \in 1..n |-> IF k + Len(categories) - n >= 1
                    THEN categories[k + Len(categories) - n]
                    ELSE SentinelAssignment]
PadTruncate(categories, n) ==
    [k \in 1..n |-> IF k <= Len(categories) THEN categories[k]
                    ELSE SentinelAssignment]

\* The zip loop of lines 144-146.
ApplyCategories(keywords, i, batch_size, categories) ==
    [j \in 1..Len(keywords) |->
        IF j \in BatchIdx(keywords, i, batch_size)
        THEN SetCategory(keywords[j],
                         categories[j - i].d["main_category"],
                         categories[j - i].d["subcategory"])
        ELSE keywords[j]]

\* Lines 126-152 once the call has returned or raised: the working set after
\* the try block and its except clause.  A KeyError or TypeError in the zip
\* loop is caught like any other exception, and the except clause rewrites
\* the whole batch.
HandleBatch(keywords, i, batch_size, response) ==
    LET n == BatchLen(Len(keywords), i, batch_size)
        parsed == parse_categories(response)
        categories == PadTruncate(parsed.value, n)
    IN  IF response.kind = "fail" \/ parsed.raised
        THEN MarkUncategorized(keywords, i, batch_size)
        ELSE IF \E k \in 1..n : ~WellFormed(categories[k])
        THEN MarkUncategorized(keywords, i, batch_size)
        ELSE ApplyCategories(keywords, i, batch_size, categories)

\* What lines 126-152 log for the batch: the error of line 148 (by the place
\* the exception came from; "shape_raised" is the ValueError of
\* parse_categories, "parse_raised" its JSONDecodeError), the length-mismatch
\* warning of line 140, or neither.
BatchOutcome(keywords, i, batch_size, response) ==
    LET n == BatchLen(Len(keywords), i, batch_size)
        parsed == parse_categories(response)
        categories == PadTruncate(parsed.value, n)
    IN  IF response.kind = "fail" THEN "call_failed"
        ELSE IF parsed.raised
             THEN (IF parsed.error = "ValueError" THEN "shape_raised"
                   ELSE "parse_raised")
        ELSE IF \E k \in 1..n : ~WellFormed(categories[k]) THEN "apply_raised"
        ELSE IF Len(parsed.value) < n THEN "padded"
        ELSE IF Len(parsed.value) > n THEN "truncated"
        ELSE "exact"

\* except Exception (line 147) catches whatever the try block raises;
\* ExceptionCaught_narrow catches the failure of the call alone.
ExceptionCaught_narrow(raised_in) == raised_in = "call_failed"
ExceptionCaught(raised_in) == TRUE

\* The request payload of line 124 reads kw['Keyword'], kw['Keyword Intents']
\* and kw['Position'] of every record of the batch; a missing key raises
\* KeyError before the try block is entered.
PromptRaises(keywords, i, batch_size) ==
    \E j \in BatchIdx(keywords, i, batch_size) :
        ~(RequiredCols \subseteq DOMAIN keywords[j])

\* completed = sum(1 for item in data if item.get('Main Category')
\*                 and item.get('Main Category') != 'Uncategorized')
\* CountCompleted_rows is completed = len(data); CountCompleted_key reads
\* item.get('main_category'), a key no row has.
RECURSIVE CountCompleted(_)
CountCompleted_rows(data) == Len(data)
CountCompleted_key(data) == 0
CountCompleted(data) ==
    IF data = <<>> THEN 0
    ELSE (IF Get(Head(data), MainCol) # "" /\ Get(Head(data), MainCol) # Uncategorized
          THEN 1 ELSE 0) + CountCompleted(Tail(data))

\* load_progress: (data, completed) of a file that exists, ([], 0) otherwise;
\* load_progress_categorized keeps the categorized rows only.
load_progress_categorized(file) ==
    IF ~file.exists THEN [data |-> <<>>, completed |-> 0]
    ELSE [data |-> SelectSeq(file.rows, LAMBDA row : Get(row, MainCol) # ""),
          completed |-> CountCompleted(file.rows)]
load_progress(file) ==
    IF ~file.exists THEN [data |-> <<>>, completed |-> 0]
    ELSE [data |-> file.rows, completed |-> CountCompleted(file.rows)]

\* if (i + batch_size) % save_interval == 0 or (i + batch_size) >= len(keywords)
SaveDue(i, batch_size, save_interval, n) ==
    (i + batch_size) % save_interval = 0 \/ (i + batch_size) >= n

\* range(start_index, len(keywords), batch_size): the index after i;
\* NextIndex_one steps by one record.
NextIndex_one(i, batch_size) == i + 1
NextIndex(i, batch_size) == i + batch_size

\* os.replace(src, dst)
os_replace(fs, src, dst) ==
    IF src = dst THEN fs ELSE [fs EXCEPT ![dst] = fs[src], ![src] = NoFile]

\* categorize_keywords of cluster-new-db.py, lines 103-122, once the call has
\* returned or raised: what the batch adds to categorized_keywords.  The
\* parsed elements are stored as they are; no key of them is read here.
DbBatchCategories(n, response) ==
    LET parsed == parse_categories(response)
    IN  IF response.kind = "fail" \/ parsed.raised
        THEN [k \in 1..n |-> SentinelAssignment]
        ELSE PadTruncate(parsed.value, n)

\* The combining loop of main, lines 171-173: zip(keywords, categorized) up
\* to the first element that raises (KeyError, TypeError), or to the end.
DbFirstBad(categorized) ==
    LET bad == {k \in 1..Len(categorized) : ~WellFormed(categorized[k])}
    IN  IF bad = {} THEN Len(categorized) + 1
        ELSE CHOOSE k \in bad : \A h \in bad : k <= h
DbCombine(keywords, categorized) ==
    [j \in 1..Len(keywords) |->
        IF j < DbFirstBad(categorized) /\ j <= Len(categorized)
        THEN SetCategory(keywords[j], categorized[j].d["main_category"],
                         categorized[j].d["subcategory"])
        ELSE keywords[j]]

\* ------------------------------------------------------------- the service
BoundedSeq(S, n) == UNION {[1..k -> S] : k \in 0..n}

\* The elements tried: a label pair, a pair of empty strings, a mapping
\* without the subcategory key, a value that is no mapping.
Elements ==
    {Assignment("Rings", "Fashion Rings"), Assignment("", ""),
     Mapping([k \in {"main_category"} |-> "Rings"]), NonMapping}
Objs == {ValidObj(Assignment("Rings", "Fashion Rings")), InvalidObj}

\* Every outcome a call for a batch of n records is given in the model: lists
\* of up to n + 1 elements, a single mapping, another JSON value, and texts
\* that are not JSON with up to n + 1 brace-delimited fragments.
Responses(n) ==
    {CallFailure, JsonOther}
        \cup {JsonList(es) : es \in BoundedSeq(Elements, n + 1)}
        \cup {JsonDict(e) : e \in {x \in Elements : x.mapping}}
        \cup {NotJson(os) : os \in BoundedSeq(Objs, n + 1)}

\* Texts that are not JSON, with up to MaxFragments brace-delimited fragments
\* and up to MaxFragments label pairs written with single quotes, besides the
\* outcomes above for one record.
Pairs == {<<"Rings", "Fashion Rings">>, <<"Necklaces", "Chains">>}
Texts ==
    Responses(1)
        \cup {FreeText(os, ps) : os \in BoundedSeq(Objs, MaxFragments),
                                 ps \in BoundedSeq(Pairs, MaxFragments)}

\* The outcomes a service that answers a batch always the same way picks
\* from.
DetResponses(n) ==
    {CallFailure}
        \cup {JsonList(es) :
                es \in BoundedSeq({Assignment("Rings", "Fashion Rings")}, n)}

\* The batches a run can send: those starting at s, for each index s.
BatchKeys(n, bs) == {<<s, BatchLen(n, s, bs)>> : s \in 0..(n - 1)}

\* The outcomes of a service that either fails or answers with one label
\* pair per record.
PlainResponses(n) ==
    {CallFailure,
     JsonList([k \in 1..n |-> Assignment("Rings", "Fashion Rings")])}

\* How the service behaves: any outcome at every call, a plain outcome at
\* every call, or the outcome fixed per batch by an oracle.
AnyService == [kind |-> "any", oracle |-> <<>>]
TextService == [kind |-> "texts", oracle |-> <<>>]
PlainService == [kind |-> "plain", oracle |-> <<>>]
DetService(oracle) == [kind |-> "det", oracle |-> oracle]
ServiceOutcomes(svc, key) ==
    CASE svc.kind = "det" -> {svc.oracle[key]}
      [] svc.kind = "plain" -> PlainResponses(key[2])
      [] svc.kind = "texts" -> Texts
      [] OTHER -> Responses(key[2])

NoResponse ==
    [kind |-> "none", shape |-> "invalid", elems |-> <<>>, objs |-> <<>>,
     pairs |-> <<>>]
NoSave == [dest |-> "", written |-> 0, completed |-> 0, final |-> FALSE]

\* ------------------------------------------------------------------- state
VARIABLES
    files,          \* file name -> [exists, rows]
    pc,             \* where the process is
    keywords,       \* the working set in memory
    start_index,    \* the resume index load_progress returned
    i,              \* the loop index of categorize_keywords
    batch_size,     \* argument of categorize_keywords, fixed over all runs
    save_interval,  \* argument of categorize_keywords, fixed over all runs
    response,       \* the outcome of the service call of the current batch
    outcome,        \* what was logged for the batch just handled
    service,        \* how the service answers
    saving,         \* the save_progress call under way
    calls,          \* history: the batches <<i, length>> sent in this run
    handled,        \* history: how many batches of this run have been applied
    since_save,     \* history: records processed since the run began or since
                    \*          its last checkpoint
    checkpoints,    \* history: the `completed` of each checkpoint of this run
    committed,      \* history: destination -> the snapshot the last finished
                    \*          save_progress was asked to store there
    logged,         \* the `completed` logged for the checkpoint on disk
    restarts,       \* history: how many times the program was started again
    resumed_k,      \* history: `completed` of the checkpoint this run loaded,
                    \*          -1 for a run that began from the input table
    interrupted_at, \* history: pc at which the previous process was killed
    main_categories,      \* the taxonomy main hands to categorize_keywords
    ngram_counts,         \* n-gram -> frequency, from process_ngrams
    ngram_categories,     \* bucket -> its n-grams, from process_ngrams
    prompt,               \* the per-record payload of the request in flight
    categorized_keywords, \* the list categorize_keywords returns
    touched,        \* history: the positions of the working set that a batch
                    \*          step of this or an earlier run has written
    ckpt_touched    \* history: `touched` as of the checkpoint on disk

vars == <<files, pc, keywords, start_index, i, batch_size, save_interval,
          response, outcome, service, saving, calls, handled, since_save,
          checkpoints, committed, logged, restarts, resumed_k, interrupted_at,
          main_categories, ngram_counts, ngram_categories, prompt,
          categorized_keywords, touched, ckpt_touched>>

params == <<batch_size, save_interval, service>>
history == <<calls, handled, since_save, checkpoints>>
disk == <<files, committed, logged, ckpt_touched>>
tables == <<main_categories, ngram_counts, ngram_categories>>
process == <<restarts, resumed_k, interrupted_at>>

\* The n-gram table of the runs that do not vary it.
NgramTable ==
    <<NgramRow("ring", "5"), NgramRow("diamond ring", "2"), NgramRow("gold", "2")>>

\* A process that has not begun, before any run.
InitProcess(bs, si, svc) ==
    /\ pc = "start"
    /\ keywords = <<>>
    /\ start_index = 0
    /\ i = 0
    /\ batch_size = bs
    /\ save_interval = si
    /\ response = NoResponse
    /\ outcome = "none"
    /\ service = svc
    /\ saving = NoSave
    /\ calls = <<>>
    /\ handled = 0
    /\ since_save = 0
    /\ checkpoints = <<>>
    /\ committed = [f \in {progress_file, output_file} |-> NoFile]
    /\ logged = 0
    /\ restarts = 0
    /\ resumed_k = -1
    /\ interrupted_at = "none"
    /\ main_categories = EmptyDict
    /\ ngram_counts = EmptyDict
    /\ ngram_categories = EmptyDict
    /\ prompt = <<>>
    /\ categorized_keywords = <<>>
    /\ touched = {}
    /\ ckpt_touched = {}

InitTables(n, cols, bs, si, svc, ngrams) ==
    /\ files = [f \in FileNames |->
                   IF f = input_file THEN File(InputRows(n, cols))
                   ELSE IF f = ngram_file THEN File(ngrams)
                   ELSE NoFile]
    /\ InitProcess(bs, si, svc)

InitWith(n, cols, bs, si, svc) == InitTables(n, cols, bs, si, svc, NgramTable)

\* The input tables tried: every required column present, or one absent.
Headers == {InputCols} \cup {InputCols \ {c} : c \in RequiredCols}

Init ==
    \E n \in 0..MaxRecords, cols \in Headers,
       bs \in 1..MaxBatch, si \in 1..MaxInterval :
        InitWith(n, cols, bs, si, AnyService)

\* ----------------------------------------------------------------- actions
\* main, lines 179-202: load the checkpoint or else the input table, read
\* the n-gram table, and enter categorize_keywords at start_index.  An empty
\* input table ends the run at once; an exception of process_ngrams is caught
\* by main (lines 210-212), which ends.
Main_Load ==
    /\ pc = "start"
    /\ LET loaded == load_progress(files[progress_file])
           data == IF loaded.data # <<>> THEN loaded.data
                   ELSE files[input_file].rows
           ngrams == process_ngrams(files[ngram_file])
       IN  /\ keywords' = data
           /\ start_index' = loaded.completed
           /\ i' = loaded.completed
           /\ resumed_k' = IF loaded.data # <<>> THEN logged ELSE -1
           /\ touched' = IF loaded.data # <<>> THEN ckpt_touched ELSE {}
           /\ main_categories' = Taxonomy
           /\ IF data = <<>>
              THEN /\ pc' = "done"
                   /\ UNCHANGED <<ngram_counts, ngram_categories>>
              ELSE IF ngrams.raised
              THEN /\ pc' = "aborted"
                   /\ UNCHANGED <<ngram_counts, ngram_categories>>
              ELSE /\ pc' = "loop"
                   /\ ngram_counts' = ngrams.ngram_counts
                   /\ ngram_categories' = ngrams.ngram_categories
    /\ interrupted_at' = "none"
    /\ UNCHANGED <<disk, params, response, outcome, saving, history, restarts,
                   prompt, categorized_keywords>>

\* Lines 111-124 and 127: the next batch's prompt is built and the request
\* sent.
SendBatch ==
    /\ pc = "loop"
    /\ i < Len(keywords)
    /\ ~PromptRaises(keywords, i, batch_size)
    /\ pc' = "call"
    /\ prompt' = Payload(keywords, i, batch_size, ngram_counts)
    /\ calls' = Append(calls, <<i, BatchLen(Len(keywords), i, batch_size)>>)
    /\ UNCHANGED <<disk, params, process, keywords, start_index, i, response,
                   outcome, saving, handled, since_save, checkpoints, tables,
                   categorized_keywords, touched>>

\* Line 124 raises outside the try block: the exception leaves
\* categorize_keywords and is caught by main (lines 210-212), which ends.
PromptError ==
    /\ pc = "loop"
    /\ i < Len(keywords)
    /\ PromptRaises(keywords, i, batch_size)
    /\ pc' = "aborted"
    /\ UNCHANGED <<disk, params, process, keywords, start_index, i, response,
                   outcome, saving, history, tables, prompt,
                   categorized_keywords, touched>>

\* Lines 127-133: the blocking call returns a text or raises.
ServiceResponds ==
    /\ pc = "call"
    /\ \E r \in ServiceOutcomes(service,
                                <<i, BatchLen(Len(keywords), i, batch_size)>>) :
           response' = r
    /\ pc' = "respond"
    /\ UNCHANGED <<disk, params, process, keywords, start_index, i, outcome,
                   saving, history, tables, prompt, categorized_keywords,
                   touched>>

\* Lines 135-152: parse, pad or truncate and apply; or the except clause.
HandleResponse ==
    /\ pc = "respond"
    /\ LET o == BatchOutcome(keywords, i, batch_size, response)
       IN  IF o \in {"call_failed", "shape_raised", "parse_raised", "apply_raised"}
              /\ ~ExceptionCaught(o)
           THEN /\ pc' = "aborted"
                /\ UNCHANGED <<keywords, handled, since_save, outcome, touched>>
           ELSE /\ keywords' = HandleBatch(keywords, i, batch_size, response)
                /\ touched' = touched \cup BatchIdx(keywords, i, batch_size)
                /\ handled' = handled + 1
                /\ since_save' =
                       since_save + BatchLen(Len(keywords), i, batch_size)
                /\ outcome' = o
                /\ pc' = "check_save"
    /\ response' = NoResponse
    /\ prompt' = <<>>
    /\ UNCHANGED <<disk, params, process, start_index, i, saving, calls,
                   checkpoints, tables, categorized_keywords>>

\* Lines 155-156: a checkpoint is due, and save_progress is entered.
StartCheckpoint ==
    /\ pc = "check_save"
    /\ SaveDue(i, batch_size, save_interval, Len(keywords))
    /\ saving' = [dest |-> progress_file, written |-> 0,
                  completed |-> i + batch_size, final |-> FALSE]
    /\ outcome' = "none"
    /\ pc' = "save_open"
    /\ UNCHANGED <<disk, params, process, keywords, start_index, i, response,
                   history, tables, prompt, categorized_keywords, touched>>

\* Lines 155 and 111: no checkpoint is due; on to the next index.
SkipCheckpoint ==
    /\ pc = "check_save"
    /\ ~SaveDue(i, batch_size, save_interval, Len(keywords))
    /\ i' = NextIndex(i, batch_size)
    /\ outcome' = "none"
    /\ pc' = "loop"
    /\ UNCHANGED <<disk, params, process, keywords, start_index, response,
                   saving, history, tables, prompt, categorized_keywords,
                   touched>>

\* Lines 111, 158 and 205: the loop is over and main enters the final save.
StartFinalSave ==
    /\ pc = "loop"
    /\ i >= Len(keywords)
    /\ saving' = [dest |-> output_file, written |-> 0,
                  completed |-> Len(keywords), final |-> TRUE]
    /\ pc' = "save_open"
    /\ UNCHANGED <<disk, params, process, keywords, start_index, i, response,
                   outcome, history, tables, prompt, categorized_keywords,
                   touched>>

\* save_progress, lines 94-99: the temporary file is created or truncated and
\* its header written.
SaveOpen ==
    /\ pc = "save_open"
    /\ files' = [files EXCEPT ![temp_file(saving.dest)] = File(<<>>)]
    /\ pc' = "save_write"
    /\ UNCHANGED <<committed, logged, ckpt_touched, params, process, keywords,
                   start_index, i, response, outcome, saving, history, tables,
                   prompt, categorized_keywords, touched>>

\* save_progress, line 100: the next row reaches the temporary file; a row
\* with a key outside the header raises, which nothing catches before main.
SaveWriteRow ==
    /\ pc = "save_write"
    /\ saving.written < Len(keywords)
    /\ LET row == keywords[saving.written + 1]
           temp == temp_file(saving.dest)
       IN  IF ExtrasRaise(row, Fieldnames(keywords))
           THEN /\ pc' = "aborted"
                /\ UNCHANGED <<files, saving>>
           ELSE /\ files' = [files EXCEPT ![temp] =
                       File(Append(files[temp].rows,
                                   CsvRow(row, Fieldnames(keywords))))]
                /\ saving' = [saving EXCEPT !.written = saving.written + 1]
                /\ pc' = "save_write"
    /\ UNCHANGED <<committed, logged, ckpt_touched, params, process, keywords,
                   start_index, i, response, outcome, history, tables, prompt,
                   categorized_keywords, touched>>

\* save_progress, lines 102-103: the temporary file replaces the destination.
\* After a checkpoint the loop goes on to the next index; after the final
\* save main ends.
SaveReplace ==
    /\ pc = "save_write"
    /\ saving.written = Len(keywords)
    /\ files' = os_replace(files, temp_file(saving.dest), saving.dest)
    /\ committed' = [committed EXCEPT ![saving.dest] = File(CsvRows(keywords))]
    /\ saving' = NoSave
    /\ IF saving.final
       THEN /\ pc' = "done"
            /\ UNCHANGED <<i, logged, ckpt_touched, checkpoints, since_save>>
       ELSE /\ pc' = "loop"
            /\ i' = NextIndex(i, batch_size)
            /\ logged' = saving.completed
            /\ ckpt_touched' = touched
            /\ checkpoints' = Append(checkpoints, saving.completed)
            /\ since_save' = 0
    /\ UNCHANGED <<params, process, keywords, start_index, response, outcome,
                   calls, handled, tables, prompt, categorized_keywords,
                   touched>>

\* A process ends and the program is started again: what the process held in
\* memory is gone, the files stay.
Forget ==
    /\ restarts < MaxRestarts
    /\ restarts' = restarts + 1
    /\ keywords' = <<>>
    /\ start_index' = 0
    /\ i' = 0
    /\ response' = NoResponse
    /\ outcome' = "none"
    /\ saving' = NoSave
    /\ calls' = <<>>
    /\ handled' = 0
    /\ since_save' = 0
    /\ checkpoints' = <<>>
    /\ resumed_k' = -1
    /\ main_categories' = EmptyDict
    /\ ngram_counts' = EmptyDict
    /\ ngram_categories' = EmptyDict
    /\ prompt' = <<>>
    /\ touched' = {}
    /\ pc' = "start"
    /\ UNCHANGED <<disk, params, categorized_keywords>>

\* The process is killed while it runs, and the program is started again
\* (lines 214-215).
Interrupt ==
    /\ pc \in {"loop", "call", "respond", "check_save", "save_open", "save_write"}
    /\ interrupted_at' = pc
    /\ Forget

\* The program is started again after a run that ended (lines 214-215).
Rerun ==
    /\ pc \in {"done", "aborted"}
    /\ interrupted_at' = "none"
    /\ Forget

Next ==
    \/ Main_Load
    \/ SendBatch
    \/ PromptError
    \/ ServiceResponds
    \/ HandleResponse
    \/ StartCheckpoint
    \/ SkipCheckpoint
    \/ StartFinalSave
    \/ SaveOpen
    \/ SaveWriteRow
    \/ SaveReplace
    \/ Interrupt
    \/ Rerun

Spec == Init /\ [][Next]_vars

\* The steps of a running process.  The program is single-threaded and
\* sequential: a process that is not killed takes its next step, and the one
\* step it can wait at is the blocking call, taken here to return or fail
\* in the end.
Program ==
    \/ Main_Load
    \/ SendBatch
    \/ PromptError
    \/ ServiceResponds
    \/ HandleResponse
    \/ StartCheckpoint
    \/ SkipCheckpoint
    \/ StartFinalSave
    \/ SaveOpen
    \/ SaveWriteRow
    \/ SaveReplace

SpecLive == Init /\ [][Next]_vars /\ WF_vars(Program)

\* A service that answers identical batches identically: the outcome of each
\* batch is fixed before the first run.
InitDet ==
    \E n \in 0..MaxRecords, cols \in Headers,
       bs \in 1..MaxBatch, si \in 1..MaxInterval :
        \E oracle \in [BatchKeys(n, bs) -> DetResponses(bs)] :
            /\ \A key \in BatchKeys(n, bs) : oracle[key] \in DetResponses(key[2])
            /\ InitWith(n, cols, bs, si, DetService(oracle))

SpecDet == InitDet /\ [][Next]_vars

\* Longer tables and intervals with a plain service, for the schedule of
\* checkpoints.
InitSched ==
    \E cols \in Headers, bs \in 1..MaxBatch, si \in 1..SchedInterval :
        InitWith(SchedRecords, cols, bs, si, PlainService)

SpecSched == InitSched /\ [][Next]_vars

\* Batches of one record and a service that answers with any of Texts, for
\* what parse_categories makes of a text.
InitParse ==
    \E n \in 1..MaxRecords, cols \in Headers :
        InitWith(n, cols, 1, MaxInterval, TextService)

SpecParse == InitParse /\ [][Next]_vars

\* The rows an n-gram table is made of under SpecNgram: single words and
\* word pairs, some matching several rules or none, one n-gram listed with
\* two frequencies, and a row whose count is empty.
NgramRows ==
    {NgramRow("ring", "5"), NgramRow("ring", "2"), NgramRow("diamond ring", "2"),
     NgramRow("earring", "2"), NgramRow("diamond", "5"), NgramRow("gold", "2"),
     NgramRow("watch bracelet", "5"), NgramRow("prom dress", "2"),
     NgramRow("wedding gown", "5"), NgramRow("gold", "")}

\* Every n-gram table of up to MaxNgrams rows, with batches of one record and
\* a plain service.
InitNgram ==
    \E cols \in Headers, ngrams \in BoundedSeq(NgramRows, MaxNgrams) :
        InitTables(MaxRecords, cols, 1, MaxInterval, PlainService, ngrams)

SpecNgram == InitNgram /\ [][Next]_vars

\* ------------------------------------------- the pipeline of cluster-new-db.py
db_input_file == "march2023-davids_bridal-20240917-semrush.csv"
db_output_file == "march2023_categorized_keywords.csv"
DbFileNames == {db_input_file, db_output_file, ngram_file}

\* main_categories of cluster-new-db.py, lines 143-152.
TaxonomyDb ==
    ("Bridal Attire" :> <<"Wedding Dresses", "Budget Wedding Dresses",
                          "Designer Wedding Dresses", "Plus Size Wedding Dresses">>)
    @@ ("Bridesmaid Dresses" :> <<"Bridesmaid Dresses", "Junior Bridesmaid Dresses">>)
    @@ ("Special Occasion Dresses" :> <<"Prom Dresses", "Homecoming Dresses",
                                        "Quinceanera Dresses", "Formal Event Dresses">>)
    @@ ("Mother of the Bride/Groom" :> <<"Mother of the Bride Dresses",
                                         "Mother of the Groom Dresses">>)
    @@ ("Accessories" :> <<"Veils", "Tiaras", "Wedding Shoes", "Bridal Jewelry",
                           "Bridal Undergarments">>)
    @@ ("Wedding Planning" :> <<"Venues", "Catering", "Photography", "Decorations",
                                "Invitations">>)
    @@ ("Bridal Services" :> <<"Dress Alterations", "Bridal Styling", "Beauty Services">>)
    @@ ("Other" :> <<"Miscellaneous", "Brand-specific">>)

\* main, lines 156-168: read the input table and the n-gram table and enter
\* categorize_keywords.
Db_Load ==
    /\ pc = "start"
    /\ LET data == files[db_input_file].rows
           ngrams == process_ngrams_db(files[ngram_file])
       IN  /\ keywords' = data
           /\ main_categories' = TaxonomyDb
           /\ IF data = <<>>
              THEN /\ pc' = "done"
                   /\ UNCHANGED <<ngram_counts, ngram_categories>>
              ELSE IF ngrams.raised
              THEN /\ pc' = "aborted"
                   /\ UNCHANGED <<ngram_counts, ngram_categories>>
              ELSE /\ pc' = "loop"
                   /\ ngram_counts' = ngrams.ngram_counts
                   /\ ngram_categories' = ngrams.ngram_categories
    /\ i' = 0
    /\ categorized_keywords' = <<>>
    /\ UNCHANGED <<disk, params, process, start_index, response, outcome,
                   saving, history, prompt, touched>>

\* Lines 88-101 and 104: the next batch's prompt is built and the request
\* sent.
Db_SendBatch ==
    /\ pc = "loop"
    /\ i < Len(keywords)
    /\ ~PromptRaises(keywords, i, batch_size)
    /\ pc' = "call"
    /\ prompt' = Payload(keywords, i, batch_size, ngram_counts)
    /\ calls' = Append(calls, <<i, BatchLen(Len(keywords), i, batch_size)>>)
    /\ UNCHANGED <<disk, params, process, keywords, start_index, i, response,
                   outcome, saving, handled, since_save, checkpoints, tables,
                   categorized_keywords, touched>>

\* Line 101 raises outside the try block; main's except clause (lines
\* 182-184) ends the run.
Db_PromptError ==
    /\ pc = "loop"
    /\ i < Len(keywords)
    /\ PromptRaises(keywords, i, batch_size)
    /\ pc' = "aborted"
    /\ UNCHANGED <<disk, params, process, keywords, start_index, i, response,
                   outcome, saving, history, tables, prompt,
                   categorized_keywords, touched>>

\* Lines 104-110: the blocking call returns a text or raises.
Db_ServiceResponds ==
    /\ pc = "call"
    /\ \E r \in ServiceOutcomes(service,
                                <<i, BatchLen(Len(keywords), i, batch_size)>>) :
           response' = r
    /\ pc' = "respond"
    /\ UNCHANGED <<disk, params, process, keywords, start_index, i, outcome,
                   saving, history, tables, prompt, categorized_keywords,
                   touched>>

\* Lines 112-122 and 88: the batch's categories are appended, and the loop
\* goes on to the next index.
Db_HandleResponse ==
    /\ pc = "respond"
    /\ categorized_keywords' =
           categorized_keywords
               \o DbBatchCategories(BatchLen(Len(keywords), i, batch_size), response)
    /\ handled' = handled + 1
    /\ i' = NextIndex(i, batch_size)
    /\ response' = NoResponse
    /\ prompt' = <<>>
    /\ pc' = "loop"
    /\ UNCHANGED <<disk, params, process, keywords, start_index, outcome,
                   saving, calls, since_save, checkpoints, tables, touched>>

\* Lines 171-173: the loop of categorize_keywords is over and main writes the
\* categories into the records; an element that is no mapping or lacks a key
\* raises, which main's except clause (lines 182-184) catches, and main ends
\* without writing the output.
Db_Combine ==
    /\ pc = "loop"
    /\ i >= Len(keywords)
    /\ keywords' = DbCombine(keywords, categorized_keywords)
    /\ pc' = IF DbFirstBad(categorized_keywords) <= Len(categorized_keywords)
             THEN "aborted" ELSE "write"
    /\ UNCHANGED <<disk, params, process, start_index, i, response, outcome,
                   saving, history, tables, prompt, categorized_keywords,
                   touched>>

\* Lines 176-180: write_csv of the output, with the columns of the first
\* record.
Db_Write ==
    /\ pc = "write"
    /\ files' = [files EXCEPT ![db_output_file] = File(CsvRows(keywords))]
    /\ pc' = "done"
    /\ UNCHANGED <<committed, logged, ckpt_touched, params, process, keywords,
                   start_index, i, response, outcome, saving, history, tables,
                   prompt, categorized_keywords, touched>>

NextDb ==
    \/ Db_Load
    \/ Db_SendBatch
    \/ Db_PromptError
    \/ Db_ServiceResponds
    \/ Db_HandleResponse
    \/ Db_Combine
    \/ Db_Write

InitDb ==
    \E n \in 0..MaxRecords, cols \in Headers, bs \in 1..MaxBatch :
        /\ files = [f \in DbFileNames |->
                       IF f = db_input_file THEN File(InputRows(n, cols))
                       ELSE IF f = ngram_file THEN File(NgramTable)
                       ELSE NoFile]
        /\ InitProcess(bs, 1, AnyService)

SpecDb == InitDb /\ [][NextDb]_vars

\* ------------------------------------------------------------------ claims
InputTable == files[input_file].rows
Progress == files[progress_file]
Output == files[output_file]

\* The working set an uninterrupted run from index 0 ends with, when the
\* service answers by oracle.
RECURSIVE RunFrom(_, _, _, _)
RunFrom(kws, idx, bs, oracle) ==
    IF idx >= Len(kws) THEN kws
    ELSE RunFrom(HandleBatch(kws, idx, bs, oracle[<<idx, BatchLen(Len(kws), idx, bs)>>]),
                 idx + bs, bs, oracle)

\* C1: with a service that answers identical batches identically, the output
\* a finished run writes (resumed from a checkpoint or not, sentinel
\* assignments before the checkpoint or not) is the output of a single
\* uninterrupted run.
C1_ResumedOutputIsUninterruptedOutput ==
    (pc = "done" /\ Output.exists)
        => Output.rows = CsvRows(RunFrom(InputTable, 0, batch_size, service.oracle))

Labelled(row) == Get(row, MainCol) # "" /\ Get(row, SubCol) # ""

\* C2: every record of the output a run wrote has a non-empty Main Category
\* and a non-empty Subcategory, whatever the service returned.
C2_OutputFullyLabelled ==
    Output.exists => \A j \in 1..Len(Output.rows) : Labelled(Output.rows[j])

\* rows holds the records of base, one for one and in order: every column of
\* base's record j is in rows' record j with the same value.
SameRecords(rows, base) ==
    /\ Len(rows) = Len(base)
    /\ \A j \in 1..Len(base) :
          \A c \in DOMAIN base[j] : c \in DOMAIN rows[j] /\ rows[j][c] = base[j][c]

\* C3: the working set in memory, every checkpoint and the output hold
\* exactly the records of the input, in the input's order.
C3_RecordsPreserved ==
    /\ pc \notin {"start"} => SameRecords(keywords, InputTable)
    /\ Progress.exists => SameRecords(Progress.rows, InputTable)
    /\ Output.exists => SameRecords(Output.rows, InputTable)

C3_Witness ==
    /\ pc = "done"
    /\ resumed_k >= 0
    /\ start_index > 0
    /\ Len(calls) > 0
    /\ Len(Output.rows) >= 3
    /\ \E j \in 1..Len(Output.rows) : Output.rows[j][MainCol] = Uncategorized

\* A table that is a whole snapshot of the working set: a record for every
\* input record, each with both category columns.
WholeSnapshot(rows) ==
    /\ SameRecords(rows, InputTable)
    /\ \A j \in 1..Len(rows) : {MainCol, SubCol} \subseteq DOMAIN rows[j]

\* C4: at every step of save_progress, and after a kill at any step, each
\* destination holds exactly the snapshot of the last finished save (or does
\* not exist yet), never a part of one, and what load_progress reads from the
\* checkpoint is that whole snapshot.
C4_CheckpointAtomic ==
    /\ \A dest \in {progress_file, output_file} :
          /\ files[dest] = committed[dest]
          /\ files[dest].exists => WholeSnapshot(files[dest].rows)
    /\ Progress.exists => WholeSnapshot(load_progress(Progress).data)

\* Killed between the last row of the temporary file and the replace of a
\* second checkpoint: the first one is still there.
C4_Witness ==
    /\ pc = "start"
    /\ interrupted_at = "save_write"
    /\ files[temp_progress].exists
    /\ Len(files[temp_progress].rows) = Len(InputTable)
    /\ Progress.exists
    /\ Progress.rows # files[temp_progress].rows
    /\ Progress = committed[progress_file]

\* C5: fewer than save_interval + batch_size records are processed between
\* the run's start and its first checkpoint and between two checkpoints, and
\* a checkpoint has been written once the final batch is done.
C5_CheckpointEveryInterval ==
    /\ since_save < save_interval + batch_size
    /\ (saving.final \/ pc = "done") /\ calls # <<>> => since_save = 0

\* C6: a run resumed from a checkpoint written after the first k records were
\* processed sends no record below k to the service.
C6_ResumeSendsOnlyFromK ==
    resumed_k >= 0 =>
        \A c \in 1..Len(calls) : calls[c][1] >= Min(resumed_k, Len(keywords))

\* The category columns of record j are the sentinel pair.
IsSentinel(row) ==
    /\ Get(row, MainCol) = Uncategorized
    /\ Get(row, SubCol) = Uncategorized

\* Every column of before other than the category columns is kept in after.
OtherColsKept(before, after) ==
    /\ DOMAIN after = DOMAIN before \cup {MainCol, SubCol}
    /\ \A c \in DOMAIN before \ {MainCol, SubCol} : after[c] = before[c]

\* C7: when the call for a batch fails, every record of the batch gets the
\* sentinel pair, no other record changes, and the run goes on to the
\* checkpoint test and the next index instead of aborting.
C7_FailedCallMarksBatch ==
    [][ /\ (pc = "respond" /\ response.kind = "fail" /\ pc' # "start") =>
              /\ pc' = "check_save"
              /\ i' = i
              /\ Len(keywords') = Len(keywords)
              /\ \A j \in 1..Len(keywords) :
                    IF j \in BatchIdx(keywords, i, batch_size)
                    THEN /\ IsSentinel(keywords'[j])
                         /\ OtherColsKept(keywords[j], keywords'[j])
                    ELSE keywords'[j] = keywords[j]
        /\ (pc = "check_save" /\ outcome = "call_failed" /\ pc' # "start") =>
              /\ pc' \in {"loop", "save_open"}
              /\ keywords' = keywords
      ]_vars

C7_Witness ==
    /\ pc = "check_save"
    /\ outcome = "call_failed"
    /\ i > 0
    /\ BatchLen(Len(keywords), i, batch_size) = 2
    /\ keywords[1][MainCol] = "Rings"
    /\ \A j \in BatchIdx(keywords, i, batch_size) : IsSentinel(keywords[j])

\* C8 as claimed: no failure in a batch ends the run before the final save.
C8_NoBatchFailureAborts == pc # "aborted"

\* C8 as amended: a failure of the call, of the parse or of the application
\* of the assignments does not end the run, which goes on to the checkpoint
\* test; the run is ended only by a failure while building the payload, and
\* then without a further write.
C8_OnlyPayloadFailureAborts ==
    [][ /\ pc' = "aborted" =>
              /\ pc = "loop"
              /\ PromptRaises(keywords, i, batch_size)
              /\ files' = files
        /\ (pc = "call" /\ pc' # "start") => pc' = "respond"
        /\ (pc = "respond" /\ pc' # "start") => pc' = "check_save"
        /\ (pc = "check_save" /\ pc' # "start") => pc' \in {"loop", "save_open"}
      ]_vars

C8_Witness ==
    /\ pc = "check_save"
    /\ outcome \in {"shape_raised", "parse_raised", "apply_raised"}
    /\ \A j \in BatchIdx(keywords, i, batch_size) : IsSentinel(keywords[j])

WellFormedList(r) ==
    /\ r.kind = "text"
    /\ r.shape = "list"
    /\ \A k \in 1..Len(r.elems) : WellFormed(r.elems[k])

\* C9: after a successful call whose text is a list of m well-formed
\* assignments, record k of the batch holds assignment k for k <= m, the
\* records after the m-th hold the sentinel pair, and the assignments after
\* the n-th are dropped.
C9_AssignmentsInOrder ==
    [][ (pc = "respond" /\ WellFormedList(response) /\ pc' # "start") =>
            /\ Len(keywords') = Len(keywords)
            /\ \A j \in 1..Len(keywords) :
                  IF j \in BatchIdx(keywords, i, batch_size)
                  THEN IF j - i <= Len(response.elems)
                       THEN /\ keywords'[j][MainCol] =
                                   response.elems[j - i].d["main_category"]
                            /\ keywords'[j][SubCol] =
                                   response.elems[j - i].d["subcategory"]
                       ELSE IsSentinel(keywords'[j])
                  ELSE keywords'[j] = keywords[j]
      ]_vars

C9_Witness ==
    /\ pc = "check_save"
    /\ outcome = "padded"
    /\ BatchLen(Len(keywords), i, batch_size) = 2
    /\ keywords[i + 1][MainCol] = "Rings"
    /\ IsSentinel(keywords[i + 2])

\* C10: the batches sent in a run are the slices [i, i + batch_size) for
\* i = start_index, start_index + batch_size, ..., cut at the end of the
\* working set, in that order and one call each; a batch is sent only when
\* every earlier one has been applied; and when the loop is over they cover
\* start_index .. len - 1.
C10_BatchesContiguousInOrder ==
    /\ \A c \in 1..Len(calls) :
          LET from == start_index + (c - 1) * batch_size IN
          /\ from < Len(keywords)
          /\ calls[c] = <<from, Min(batch_size, Len(keywords) - from)>>
    /\ handled = Len(calls) - (IF pc \in {"call", "respond"} THEN 1 ELSE 0)
    /\ (saving.final \/ (pc = "done" /\ keywords # <<>>)) =>
          start_index + Len(calls) * batch_size >= Len(keywords)

C10_Witness ==
    /\ pc = "done"
    /\ start_index = 0
    /\ Len(calls) = 2
    /\ calls[2] = <<2, 1>>

\* C11: a record that carries the sentinel pair of a failed batch is in no
\* batch sent later, in the same run or in a run resumed from a checkpoint.
\* (Read under SpecSched, where the service either fails or labels every
\* record, so that the sentinel pair marks exactly the records of failed
\* batches.)
C11_FailedBatchNeverResent ==
    [][ (pc = "loop" /\ pc' = "call") =>
            \A j \in BatchIdx(keywords, i, batch_size) : ~IsSentinel(keywords[j])
      ]_vars

\* The pattern scan of keyword_clustering.py, lines 41-45: one assignment per
\* pair 'main_category': '...', 'subcategory': '...' found in the text.
PairScan(response_content) ==
    [k \in 1..Len(response_content.pairs) |->
        Assignment(response_content.pairs[k][1], response_content.pairs[k][2])]

\* The whole text is not JSON.
NotParseable(r) == r.kind = "text" /\ r.shape = "invalid"

\* C12: for a text that is not JSON and from which no fragment can be parsed
\* (it has no brace-delimited fragment, or its fragments are not JSON),
\* parse_categories returns the empty sequence and does not raise.
C12_ParseNeverRaises ==
    (pc = "respond" /\ NotParseable(response)
       /\ \A k \in 1..Len(response.objs) : ~response.objs[k].valid)
        => parse_categories(response) = Returned(<<>>)

\* C13: for a text that is JSON, parse_categories returns the list itself
\* when the value is a list, a list of the one mapping when it is a mapping,
\* and raises otherwise; the list of one label pair gives the record that
\* pair, and the error of another value reaches categorize_keywords as an
\* error of its own ("shape_raised"), not as the empty sequence of a parse
\* failure ("padded").
C13_WholeTextParse ==
    [][ (pc = "respond" /\ response.kind = "text" /\ pc' # "start") =>
          LET parsed == parse_categories(response) IN
          /\ response.shape = "list" => parsed = Returned(response.elems)
          /\ response.shape = "dict" =>
                /\ parsed = Returned(<<response.elems[1]>>)
                /\ Len(parsed.value) = 1
          /\ response.shape = "other" =>
                /\ parsed.raised
                /\ parsed # Returned(<<>>)
                /\ outcome' = "shape_raised"
          /\ response = JsonList(<<Assignment("Rings", "Fashion Rings")>>) =>
                /\ keywords'[i + 1][MainCol] = "Rings"
                /\ keywords'[i + 1][SubCol] = "Fashion Rings"
          /\ outcome' = "shape_raised" => response.shape = "other"
      ]_vars

C13_Witness ==
    /\ pc = "check_save"
    /\ outcome = "shape_raised"
    /\ IsSentinel(keywords[i + 1])

\* C14: when the text is not JSON and holds no brace-delimited fragment,
\* parse_categories returns one assignment per label pair the pattern scan
\* finds in the text, and the empty sequence only when it finds none.
C14_ThirdStrategyScansPairs ==
    (pc = "respond" /\ NotParseable(response) /\ response.objs = <<>>)
        => parse_categories(response) = Returned(PairScan(response))

\* The rules of the two n-gram classifiers, in rule order: the substrings of
\* a rule's predicate and the rule's bucket.
Rules ==
    << <<{"ring", "engagement"}, "Rings">>,
       <<{"necklace", "pendant"}, "Necklaces">>,
       <<{"earring"}, "Earrings">>,
       <<{"bracelet"}, "Bracelets">>,
       <<{"watch"}, "Watches">>,
       <<{"diamond", "gemstone"}, "Gemstones">> >>
RulesDb ==
    << <<{"wedding", "bridal"}, "Wedding Attire">>,
       <<{"dress", "gown"}, "Dresses">>,
       <<{"prom"}, "Prom">>,
       <<{"bridesmaid"}, "Bridesmaid">>,
       <<{"mother of"}, "Mother of the Bride/Groom">>,
       <<{"accessories", "shoes", "veil"}, "Accessories">> >>

Matches(rule, ngram) == \E sub \in rule[1] : In(sub, ngram)

\* The bucket of the first rule that matches, "Other" when none does.
FirstMatch(rules, ngram) ==
    LET hits == {k \in 1..Len(rules) : Matches(rules[k], ngram)}
    IN  IF hits = {} THEN "Other"
        ELSE rules[CHOOSE k \in hits : \A h \in hits : k <= h][2]

\* How many times ngram is in the list xs.
Occurrences(xs, ngram) == Cardinality({k \in 1..Len(xs) : xs[k] = ngram})

\* cats holds every row of the table in exactly one bucket, that of the
\* first matching rule of rules, in the order of the table.
BucketedByFirstMatch(cats, rows, rules) ==
    LET ngrams == [k \in 1..Len(rows) |-> rows[k]["ngram"]]
    IN  /\ DOMAIN cats = {FirstMatch(rules, ngrams[k]) : k \in 1..Len(rows)}
        /\ \A b \in DOMAIN cats :
              cats[b] = SelectSeq(ngrams, LAMBDA g : FirstMatch(rules, g) = b)
        /\ \A k \in 1..Len(rows) :
              /\ Cardinality({b \in DOMAIN cats :
                                 Occurrences(cats[b], ngrams[k]) > 0}) = 1
              /\ Occurrences(cats[FirstMatch(rules, ngrams[k])], ngrams[k])
                    = Occurrences(ngrams, ngrams[k])

NgramRowsRead == files[ngram_file].rows
\* main has read the tables and entered categorize_keywords.
JustLoaded == pc = "loop" /\ calls = <<>>

\* C15: the buckets process_ngrams returned hold every row of the n-gram
\* table exactly once, in the bucket of the first rule in rule order whose
\* substring matches the n-gram, or in "Other" when no rule matches; this
\* holds for the rules of cluster-new.py and for those of cluster-new-db.py,
\* and the buckets are a function of the table alone.
C15_FirstMatchingRuleWins ==
    JustLoaded =>
        /\ BucketedByFirstMatch(ngram_categories, NgramRowsRead, Rules)
        /\ ngram_categories = process_ngrams(files[ngram_file]).ngram_categories
        /\ BucketedByFirstMatch(process_ngrams_db(files[ngram_file]).ngram_categories,
                                NgramRowsRead, RulesDb)

\* "diamond ring" matches the rule of Rings and the rule of Gemstones, and
\* "earring" the rule of Rings and the rule of Earrings.
C15_Witness ==
    /\ pc = "loop"
    /\ NgramRowsRead = <<NgramRow("diamond ring", "2"), NgramRow("earring", "2")>>
    /\ ngram_categories["Rings"] = <<"diamond ring", "earring">>
    /\ DOMAIN ngram_categories = {"Rings"}

RECURSIVE SumOver(_, _)
SumOver(S, f) ==
    IF S = {} THEN 0
    ELSE LET x == CHOOSE y \in S : TRUE IN f[x] + SumOver(S \ {x}, f)

\* The sum of the frequencies of the n-grams that are substrings of text.
SubstringSum(text, counts) ==
    SumOver({g \in DOMAIN counts : Contains(Chars[g], Chars[text])}, counts)

\* C16: the n-gram count sent for a keyword is the sum of the frequencies of
\* the n-grams of the table that are substrings of the keyword, n-grams of
\* several words and n-grams inside a longer word included.
C16_CountSumsSubstrings ==
    pc \in {"call", "respond"} =>
        \A k \in 1..Len(prompt) :
            prompt[k].ngram_count = SubstringSum(prompt[k].keyword, ngram_counts)

\* ceil(a / b), zero for a <= 0
CeilDiv(a, b) == IF a <= 0 THEN 0 ELSE (a + b - 1) \div b

\* The input table is not empty and every row has the required columns.
WellFormedInput ==
    /\ InputTable # <<>>
    /\ \A j \in 1..Len(InputTable) : RequiredCols \subseteq DOMAIN InputTable[j]

\* C17: a run over a non-empty table of well-formed records, from whatever
\* resume index, reaches the end of main; it has then sent exactly
\* ceil((len - start_index) / batch_size) batches (none when start_index >=
\* len) and the output holds the whole working set.
C17_RunTerminates ==
    /\ (pc = "start" /\ WellFormedInput) ~> (pc = "done")
    /\ [](pc = "done" /\ WellFormedInput =>
            /\ Len(calls) = CeilDiv(Len(keywords) - start_index, batch_size)
            /\ Output = File(CsvRows(keywords))
            /\ Len(Output.rows) = Len(InputTable))

\* A run resumed at index 1 of 3 records with batch_size 2 ends after one
\* call.
C17_Witness ==
    /\ pc = "done"
    /\ resumed_k >= 0
    /\ start_index = 1
    /\ Len(keywords) = 3
    /\ batch_size = 2
    /\ Len(calls) = 1
    /\ Output.exists

\* Some element the batch keeps of the parsed response is no assignment.
DbKeepsMalformed(n, r) ==
    /\ r.kind = "text"
    /\ ~parse_categories(r).raised
    /\ \E k \in 1..Min(n, Len(parse_categories(r).value)) :
          ~WellFormed(parse_categories(r).value[k])

\* C18: in cluster-new-db.py, when the response of a batch parses into
\* elements that are no assignments, the records of that batch get the
\* sentinel assignment, the combining loop of main runs to its end, and the
\* output is written with every record labelled.
C18_DbMalformedElementsRecovered ==
    [][ /\ (pc = "respond"
              /\ DbKeepsMalformed(BatchLen(Len(keywords), i, batch_size), response)) =>
              \A k \in (Len(categorized_keywords) + 1)..Len(categorized_keywords') :
                  categorized_keywords'[k] = SentinelAssignment
        /\ (pc = "loop" /\ i >= Len(keywords)) => pc' = "write"
        /\ pc = "write" =>
              /\ files'[db_output_file].exists
              /\ \A j \in 1..Len(keywords) :
                    Labelled(files'[db_output_file].rows[j])
      ]_vars

\* C19: the steps of a batch (request, response, application or except
\* clause) change nothing but the category columns of the records of the
\* batch: the other columns of those records, the records outside the batch,
\* the taxonomy, the n-gram tables and the files stay as they are, whatever
\* the outcome of the batch.
C19_BatchStepFrame ==
    [][ (pc \in {"loop", "call", "respond"} /\ i < Len(keywords) /\ pc' # "start") =>
            /\ Len(keywords') = Len(keywords)
            /\ \A j \in 1..Len(keywords) :
                  IF pc = "respond" /\ j \in BatchIdx(keywords, i, batch_size)
                  THEN OtherColsKept(keywords[j], keywords'[j])
                  ELSE keywords'[j] = keywords[j]
            /\ main_categories' = main_categories
            /\ ngram_counts' = ngram_counts
            /\ ngram_categories' = ngram_categories
            /\ files' = files
      ]_vars

\* A second batch whose response was longer than the batch: the passthrough
\* column of its records and the first batch's labels are as before.
C19_Witness ==
    /\ pc = "check_save"
    /\ outcome = "truncated"
    /\ i > 0
    /\ keywords[1][MainCol] = "Rings"
    /\ "Search Volume" \in DOMAIN keywords[i + 1]
    /\ keywords[i + 1]["Search Volume"] = "100"
    /\ keywords[i + 1][MainCol] = "Rings"
    /\ main_categories = Taxonomy
    /\ ngram_counts # EmptyDict

\* The 0-based index of the first of n records that no batch step has
\* written, n when every record has been written.
FirstUntouched(n, done) ==
    CHOOSE k \in 0..n :
        /\ \A j \in 1..k : j \in done
        /\ k < n => (k + 1) \notin done

\* C20: the resume index load_progress computes from the checkpoint on disk
\* is at most the index of the first record that no run has processed; a
\* run starts at or below the first record not yet processed, and when it
\* is over every record of the working set has been processed.
C20_ResumeNeverSkips ==
    /\ Progress.exists =>
          load_progress(Progress).completed
              <= FirstUntouched(Len(Progress.rows), ckpt_touched)
    /\ (pc \notin {"start", "aborted"} /\ calls = <<>>) =>
          start_index <= FirstUntouched(Len(keywords), touched)
    /\ (pc = "done" /\ keywords # <<>>) =>
          /\ touched = 1..Len(keywords)
          /\ \A j \in 1..Len(Output.rows) :
                {MainCol, SubCol} \subseteq DOMAIN Output.rows[j]

\* A run resumed at index 1 from a checkpoint written after 2 records, one
\* of them with the sentinel pair, has reached the end.
C20_Witness ==
    /\ pc = "done"
    /\ resumed_k = 2
    /\ start_index = 1
    /\ Len(keywords) = 3
    /\ touched = {1, 2, 3}
    /\ ckpt_touched = {1, 2, 3}

\* Every row carries a Main Category that is neither empty nor the sentinel.
FullyReal(rows) ==
    /\ rows # <<>>
    /\ \A j \in 1..Len(rows) :
          Get(rows[j], MainCol) # "" /\ Get(rows[j], MainCol) # Uncategorized

\* C21: once a run has written an output in which every record has a real
\* label, running the program again changes nothing: load_progress returns
\* the record count as resume index and the labelled records as working
\* set, no batch is sent, no record changes, and the final save leaves the
\* output as it was.
C21_RerunIdempotent ==
    [][ (Output.exists /\ FullyReal(Output.rows)) =>
            /\ Progress.exists /\ Progress.rows = Output.rows
            /\ load_progress(Progress).completed = Len(Output.rows)
            /\ (pc = "start" /\ pc' # "start") =>
                  /\ start_index' = Len(Output.rows)
                  /\ keywords' = Output.rows
                  /\ pc' = "loop"
            /\ Len(calls') <= Len(calls)
            /\ (pc \notin {"start", "done", "aborted"}) =>
                  (pc' = "start" \/ keywords' = keywords)
            /\ pc' # "aborted"
            /\ files'[output_file] = files[output_file]
            /\ files'[progress_file] = files[progress_file]
      ]_vars

\* The second run, begun after the first one ended, has ended too without a
\* call.
C21_Witness ==
    /\ pc = "done"
    /\ restarts = 1
    /\ interrupted_at = "none"
    /\ resumed_k >= 0
    /\ calls = <<>>
    /\ start_index = 3
    /\ Len(keywords) = 3
    /\ FullyReal(Output.rows)
    /\ Output.rows = keywords

\* C22: whatever the n-gram table, process_ngrams of cluster-new.py puts no
\* n-gram in the "Earrings" bucket, and every n-gram that contains 'earring'
\* is in "Rings"; the if/elif chain gives "Earrings" for no text at all,
\* since a text that contains 'earring' contains 'ring'.
C22_EarringShadowedByRing ==
    JustLoaded =>
        /\ "Earrings" \notin DOMAIN ngram_categories
        /\ \A k \in 1..Len(NgramRowsRead) :
              LET ngram == NgramRowsRead[k]["ngram"] IN
              In("earring", ngram) =>
                  /\ "Rings" \in DOMAIN ngram_categories
                  /\ Occurrences(ngram_categories["Rings"], ngram) > 0
                  /\ \A b \in DOMAIN ngram_categories \ {"Rings"} :
                        Occurrences(ngram_categories[b], ngram) = 0
        /\ \A text \in DOMAIN Chars :
              /\ Buckets(text) # {"Earrings"}
              /\ In("earring", text) => Buckets(text) = {"Rings"}

\* A table with 'earring' and an n-gram no rule matches.
C22_Witness ==
    /\ pc = "loop"
    /\ calls = <<>>
    /\ NgramRowsRead = <<NgramRow("earring", "2"), NgramRow("gold", "2")>>
    /\ DOMAIN ngram_categories = {"Rings", "Other"}
    /\ ngram_categories["Rings"] = <<"earring">>
    /\ ngram_categories["Other"] = <<"gold">>

====
